---- MODULE Spec2Model ----
(***************************************************************************)
(* Model of the calibration session (src/Calibration.cpp): the frame pump  *)
(* (Calibration::frame), the corner finder worker thread                   *)
(* (Calibration::cornerFinder), the reader of the published results        *)
(* (cornerFinderResultsLockAndFetch / cornerFinderResultsUnlock) and the   *)
(* caller of capture() / uncapture() / uncaptureAll(); and of the flow     *)
(* controller (src/flow.cpp): flowThread, flowHandleEvent,                 *)
(* flowWaitForEvent, flowInitAndStart and flowStopAndFinal, driven by the  *)
(* main loop of src/calib_camera.cpp.                                      *)
(*                                                                         *)
(* The worker handshake is the one of ARUtil's thread_sub, which           *)
(* Calibration.hpp includes: a handle holds three flags under one mutex,   *)
(*   startF  set to 1 by threadStartSignal, cleared by threadStartWait;    *)
(*   busyF   set to 1 by threadStartWait (worker side, when it picks the   *)
(*           request up), cleared by threadEndSignal;                      *)
(*   endF    set to 1 by threadEndSignal, cleared by threadEndWait.        *)
(* threadGetStatus returns endF and threadGetBusyStatus returns busyF.     *)
(* Each thread_sub call is atomic (it runs under the handle's mutex).      *)
(***************************************************************************)
EXTENDS Integers, Sequences, FiniteSets, TLC

\* ---------------------------------------------------------------- bounds

\* Number of distinct frames the video source delivers.
MaxFrames == 2
\* Largest calibImageCountMax a session is constructed with.
MaxCount == 2
\* Largest number of times cornerSubPix is applied to one published result.
MaxRefine == 2

\* ---------------------------------------------------------------- values

\* Calibration::CalibrationPatternType
PatternTypes == {"CHESSBOARD", "CIRCLES_GRID", "ASYMMETRIC_CIRCLES_GRID"}

\* Pixel buffers.  NullImg is a null videoFrame pointer (a data object built
\* with width and height 0), GarbageImg is a buffer whose content is not one
\* whole source frame (freshly arMalloc'ed, or a memcpy in progress), and
\* Img(id, vis) is source frame number id, in which the whole pattern is
\* visible or not.
NullImg == 0
GarbageImg == 1
Img(id, vis) == 2 * id + (IF vis THEN 1 ELSE 0)
ImgId(i) == i \div 2
ImgVis(i) == i % 2 = 1 /\ i > 1
Images == {NullImg, GarbageImg} \cup {Img(id, vis) : id \in 1..MaxFrames, vis \in BOOLEAN}

\* A corner vector: the positions detected in image src, refined ref times.
NoCorners == [src |-> NullImg, ref |-> 0]
GarbageCorners == [src |-> GarbageImg, ref |-> 0]

\* cv::findChessboardCorners on an image: the corner vector it writes ...
findChessboardCornersOut(img) == [src |-> img, ref |-> 0]
\* ... and the values it can return.  A whole frame gives one answer; pixels
\* that are not one whole frame can give either.
findChessboardCornersRet(img) ==
    IF img = GarbageImg \/ img = NullImg THEN {0, 1}
    ELSE IF ImgVis(img) THEN {1} ELSE {0}

\* cv::cornerSubPix: moves the positions (they are no longer the detector's).
cornerSubPix(c) == [c EXCEPT !.ref = @ + 1]

\* EVENT_t: a bit set, written as the set of its bits.
EVENT_NONE == {}
EVENT_TOUCH == {"TOUCH"}
EVENT_BACK_BUTTON == {"BACK_BUTTON"}
EVENT_MODAL == {"MODAL"}
Events == {EVENT_TOUCH, EVENT_BACK_BUTTON, EVENT_MODAL}

\* FLOW_STATE
FlowStates == {"NOT_INITED", "WELCOME", "CAPTURING", "CALIBRATING", "DONE"}

VARIABLES
    m_patternType,              \* constructor argument
    m_calibImageCountMax,       \* constructor argument
    m_cornerFinderData,         \* worker's input and output slot
    m_cornerFinderResultData,   \* published copy
    m_cornerFinderResultLock,   \* owner of the mutex, or "free"
    m_corners,                  \* captured sets
    startF, endF, busyF,        \* THREAD_HANDLE_T of m_cornerFinderThread
    vsFrame,                    \* newest frame of the video source (NullImg: none yet)
    framePc, buff,              \* position and local of the thread in frame()
    workerPc, found,            \* position and local of cornerFinder
    readerPc, fetched,          \* reader between LockAndFetch and Unlock
    ctlPc, saved,               \* position and local of the capture()/uncapture() caller
    lastOp, lastRet,            \* the caller's last completed call and its result
    repeated,                   \* that call was the same operation as the one before it
    exited,                     \* the process called exit()
    gInited, gState, gEvent,    \* flow.cpp globals
    gEventMask, gStop,          \* flow.cpp globals
    mainPc, key, handled,       \* main thread: position, flowHandleEvent's argument and result
    flowPc, event,              \* flowThread: position and local
    captureDoneSinceBackButtonLastPressed,  \* flowThread local
    accepted,                   \* accepted posts the pending (or last delivered) event stands for
    lastAccepted,               \* the event of the last accepted post
    acceptedState,              \* gState when that post was accepted
    callbacks,                  \* calls of gCallback since CAPTURING was last set
    lastCall,                   \* the main thread's last logged call of a flow function
    publishedInEarlierRun       \* in a capture run before frame() has published in it

sessVars == <<m_patternType, m_calibImageCountMax, m_corners>>
dataVars == <<m_cornerFinderData, m_cornerFinderResultData, m_cornerFinderResultLock>>
handleVars == <<startF, endF, busyF>>
frameVars == <<framePc, buff>>
workerVars == <<workerPc, found>>
readerVars == <<readerPc, fetched>>
ctlVars == <<ctlPc, saved, lastOp, lastRet, repeated>>
globalVars == <<gInited, gState, gEvent, gEventMask, gStop>>
mainVars == <<mainPc, key, handled>>
threadVars == <<flowPc, event, captureDoneSinceBackButtonLastPressed>>
histVars == <<accepted, lastAccepted, acceptedState, callbacks, lastCall,
              publishedInEarlierRun>>
flowVars == <<globalVars, mainVars, threadVars, histVars>>

vars == <<sessVars, dataVars, handleVars, vsFrame, frameVars, workerVars,
          readerVars, ctlVars, exited, flowVars>>

NoFetch == [cornerFoundAllFlag |-> 0, corners |-> NoCorners, videoFrame |-> NullImg]

\* ---------------------------------------------------------------- Init

\* CalibrationCornerFinderData constructor.  With a positive size init()
\* allocates the frame without clearing it; with size 0 the pointer is null.
CalibrationCornerFinderData(hasSize) ==
    [cornerFoundAllFlag |-> 0,
     corners |-> NoCorners,
     videoFrame |-> IF hasSize THEN GarbageImg ELSE NullImg]

\* No call of a flow function is logged yet.
NoCall == [fn |-> "none", state |-> "NOT_INITED", ret |-> FALSE]

\* flow.cpp before flowInitAndStart: the initializers of its globals; no
\* controller thread yet.
flowStatics ==
    /\ gInited = FALSE /\ gState = "NOT_INITED"
    /\ gEvent = EVENT_NONE /\ gEventMask = EVENT_NONE /\ gStop = FALSE
    /\ mainPc = "startVideo" /\ key = EVENT_NONE /\ handled = FALSE
    /\ flowPc = "none" /\ event = EVENT_NONE
    /\ captureDoneSinceBackButtonLastPressed = FALSE
    /\ accepted = 0 /\ lastAccepted = EVENT_NONE /\ acceptedState = "NOT_INITED"
    /\ callbacks = 0 /\ lastCall = NoCall
    /\ publishedInEarlierRun = FALSE

\* Calibration::Calibration, and the threads before their first step.
InitSession(patternTypes, countMaxes) ==
    /\ m_patternType \in patternTypes
    /\ m_calibImageCountMax \in countMaxes
    /\ m_cornerFinderData = CalibrationCornerFinderData(TRUE)
    /\ m_cornerFinderResultData = CalibrationCornerFinderData(FALSE)
    /\ m_cornerFinderResultLock = "free"
    /\ m_corners = <<>>
    /\ startF = 0 /\ endF = 0 /\ busyF = 0
    /\ vsFrame = NullImg
    /\ framePc = "idle" /\ buff = NullImg
    /\ workerPc = "threadStartWait" /\ found = 0
    /\ readerPc = "idle" /\ fetched = NoFetch
    /\ ctlPc = "idle" /\ saved = FALSE
    /\ lastOp = "none" /\ lastRet = FALSE /\ repeated = FALSE
    /\ exited = FALSE
    /\ flowStatics

\* ---------------------------------------------------------------- mutex

\* Mutant: a lock that is taken without waiting for its holder.
resultLockIgnored == TRUE

\* pthread_mutex_lock(&m_cornerFinderResultLock) returns only when no thread
\* holds the mutex.
resultLockAvailable == m_cornerFinderResultLock = "free"

\* ---------------------------------------------------------------- frame()

\* frame(): threadGetStatus(m_cornerFinderThread) returns endF.
frameGetStatus ==
    /\ framePc = "idle"
    /\ framePc' = IF endF # 0 THEN "threadEndWait" ELSE "threadGetBusyStatus"
    /\ UNCHANGED <<sessVars, dataVars, handleVars, vsFrame, buff, workerVars,
                   readerVars, ctlVars, exited>>
    /\ UNCHANGED flowVars

\* frame(): threadEndWait waits for endF # 0 and resets it.
frameEndWait ==
    /\ framePc = "threadEndWait"
    /\ endF # 0
    /\ endF' = 0
    /\ framePc' = "lock"
    /\ UNCHANGED <<sessVars, dataVars, startF, busyF, vsFrame, buff, workerVars,
                   readerVars, ctlVars, exited>>
    /\ UNCHANGED flowVars

\* frame(): pthread_mutex_lock(&m_cornerFinderResultLock).
frameLock ==
    /\ framePc = "lock"
    /\ resultLockAvailable
    /\ m_cornerFinderResultLock' = "frame"
    /\ framePc' = "copy"
    /\ UNCHANGED <<sessVars, m_cornerFinderData, m_cornerFinderResultData, handleVars,
                   vsFrame, buff, workerVars, readerVars, ctlVars, exited>>
    /\ UNCHANGED flowVars

\* The corner vectors a copy of m_cornerFinderData.corners can yield: the vector
\* itself, or, while findChessboardCorners is writing it, anything.
copiedCorners ==
    IF workerPc = "findChessboardCorners"
    THEN {m_cornerFinderData.corners, GarbageCorners}
    ELSE {m_cornerFinderData.corners}

\* frame(): m_cornerFinderResultData = m_cornerFinderData (operator=: the flag,
\* the corners and the pixels are copied from the worker's slot).
frameCopy ==
    /\ framePc = "copy"
    /\ \E c \in copiedCorners :
          m_cornerFinderResultData' =
              [cornerFoundAllFlag |-> m_cornerFinderData.cornerFoundAllFlag,
               corners |-> c,
               videoFrame |-> m_cornerFinderData.videoFrame]
    /\ framePc' = "unlock"
    /\ publishedInEarlierRun' = FALSE
    /\ UNCHANGED <<sessVars, m_cornerFinderData, m_cornerFinderResultLock, handleVars,
                   vsFrame, buff, workerVars, readerVars, ctlVars, exited>>
    /\ UNCHANGED <<globalVars, mainVars, threadVars, accepted, lastAccepted, acceptedState,
                   callbacks, lastCall>>

\* frame(): pthread_mutex_unlock(&m_cornerFinderResultLock).
frameUnlock ==
    /\ framePc = "unlock"
    /\ m_cornerFinderResultLock' = "free"
    /\ framePc' = "threadGetBusyStatus"
    /\ UNCHANGED <<sessVars, m_cornerFinderData, m_cornerFinderResultData, handleVars,
                   vsFrame, buff, workerVars, readerVars, ctlVars, exited>>
    /\ UNCHANGED flowVars

\* frame(): if (!threadGetBusyStatus(m_cornerFinderThread)); otherwise return true.
frameGetBusyStatus ==
    /\ framePc = "threadGetBusyStatus"
    /\ framePc' = IF busyF = 0 THEN "checkoutFrame" ELSE "idle"
    /\ UNCHANGED <<sessVars, dataVars, handleVars, vsFrame, buff, workerVars,
                   readerVars, ctlVars, exited>>
    /\ UNCHANGED flowVars

\* vs->checkoutFrameIfNewerThan({0,0}): the newest frame of the source, or
\* NULL when the source has none to hand out.
checkoutFrameIfNewerThan0 == {NullImg, vsFrame}

\* Mutant: without a frame the job is signalled all the same.
frameCheckoutSignalsAnyway ==
    /\ framePc = "checkoutFrame"
    /\ \E b \in checkoutFrameIfNewerThan0 :
          /\ buff' = b
          /\ IF b # NullImg
             THEN /\ m_cornerFinderData' = [m_cornerFinderData EXCEPT !.videoFrame = GarbageImg]
                  /\ framePc' = "memcpy"
             ELSE /\ UNCHANGED m_cornerFinderData
                  /\ framePc' = "threadStartSignal"
    /\ UNCHANGED <<sessVars, m_cornerFinderResultData, m_cornerFinderResultLock,
                   handleVars, vsFrame, workerVars, readerVars, ctlVars, exited>>
    /\ UNCHANGED flowVars

\* frame(): buff = checkoutFrameIfNewerThan(...); with a frame the memcpy into
\* m_cornerFinderData.videoFrame begins, without one frame() returns true.
frameCheckout ==
    /\ framePc = "checkoutFrame"
    /\ \E b \in checkoutFrameIfNewerThan0 :
          /\ buff' = b
          /\ IF b # NullImg
             THEN /\ m_cornerFinderData' = [m_cornerFinderData EXCEPT !.videoFrame = GarbageImg]
                  /\ framePc' = "memcpy"
             ELSE /\ UNCHANGED m_cornerFinderData
                  /\ framePc' = "idle"
    /\ UNCHANGED <<sessVars, m_cornerFinderResultData, m_cornerFinderResultLock,
                   handleVars, vsFrame, workerVars, readerVars, ctlVars, exited>>
    /\ UNCHANGED flowVars

\* frame(): the memcpy completes; vs->checkinFrame().
frameMemcpy ==
    /\ framePc = "memcpy"
    /\ m_cornerFinderData' = [m_cornerFinderData EXCEPT !.videoFrame = buff]
    /\ framePc' = "threadStartSignal"
    /\ UNCHANGED <<sessVars, m_cornerFinderResultData, m_cornerFinderResultLock,
                   handleVars, vsFrame, buff, workerVars, readerVars, ctlVars, exited>>
    /\ UNCHANGED flowVars

\* frame(): threadStartSignal sets startF; return true.
frameStartSignal ==
    /\ framePc = "threadStartSignal"
    /\ startF' = 1
    /\ buff' = NullImg
    /\ framePc' = "idle"
    /\ UNCHANGED <<sessVars, dataVars, endF, busyF, vsFrame, workerVars,
                   readerVars, ctlVars, exited>>
    /\ UNCHANGED flowVars

\* The video source captures its next frame.
videoNewFrame ==
    /\ ImgId(vsFrame) < MaxFrames
    /\ \E vis \in BOOLEAN : vsFrame' = Img(ImgId(vsFrame) + 1, vis)
    /\ UNCHANGED <<sessVars, dataVars, handleVars, frameVars, workerVars,
                   readerVars, ctlVars, exited>>
    /\ UNCHANGED flowVars

\* ---------------------------------------------------------------- cornerFinder

\* cornerFinder: threadStartWait waits for startF, clears it and sets busyF.
workerStartWait ==
    /\ workerPc = "threadStartWait"
    /\ startF = 1
    /\ startF' = 0
    /\ busyF' = 1
    /\ workerPc' = "findChessboardCorners"
    /\ UNCHANGED <<sessVars, dataVars, endF, vsFrame, frameVars, found,
                   readerVars, ctlVars, exited>>
    /\ UNCHANGED flowVars

\* cornerFinder: switch (patternType): the chessboard detector runs on
\* calibImage (backed by videoFrame) and writes corners; any other type exits.
workerDetect ==
    /\ workerPc = "findChessboardCorners"
    /\ IF m_patternType = "CHESSBOARD"
       THEN /\ m_cornerFinderData' = [m_cornerFinderData EXCEPT
                   !.corners = findChessboardCornersOut(m_cornerFinderData.videoFrame)]
            /\ found' \in findChessboardCornersRet(m_cornerFinderData.videoFrame)
            /\ workerPc' = "storeFlag"
            /\ UNCHANGED exited
       ELSE /\ exited' = TRUE
            /\ UNCHANGED <<m_cornerFinderData, found, workerPc>>
    /\ UNCHANGED <<sessVars, m_cornerFinderResultData, m_cornerFinderResultLock,
                   handleVars, vsFrame, frameVars, readerVars, ctlVars>>
    /\ UNCHANGED flowVars

\* cornerFinder: cornerFoundAllFlag = (the detector's return value).
workerStoreFlag ==
    /\ workerPc = "storeFlag"
    /\ m_cornerFinderData' = [m_cornerFinderData EXCEPT !.cornerFoundAllFlag = found]
    /\ found' = 0
    /\ workerPc' = "threadEndSignal"
    /\ UNCHANGED <<sessVars, m_cornerFinderResultData, m_cornerFinderResultLock,
                   handleVars, vsFrame, frameVars, readerVars, ctlVars, exited>>
    /\ UNCHANGED flowVars

\* cornerFinder: threadEndSignal sets endF and clears busyF.
workerEndSignal ==
    /\ workerPc = "threadEndSignal"
    /\ endF' = 1
    /\ busyF' = 0
    /\ workerPc' = "threadStartWait"
    /\ UNCHANGED <<sessVars, dataVars, startF, vsFrame, frameVars, found,
                   readerVars, ctlVars, exited>>
    /\ UNCHANGED flowVars

\* One whole job of cornerFinder on a frame of the source, from the memcpy of
\* the frame to threadEndSignal, taken as a single step: the slot holds the
\* frame, the detector's output for it and its return value, and endF is set.
JobOutputsOn(ids) ==
    {[videoFrame |-> Img(id, vis),
      corners |-> findChessboardCornersOut(Img(id, vis)),
      cornerFoundAllFlag |-> IF vis THEN 1 ELSE 0] : id \in ids, vis \in BOOLEAN}

JobOutputs == JobOutputsOn(1..MaxFrames)

cornerFinderJobOf(outputs) ==
    /\ endF = 0
    /\ m_cornerFinderData' \in outputs
    /\ endF' = 1
    /\ UNCHANGED <<sessVars, m_cornerFinderResultData, m_cornerFinderResultLock, startF,
                   busyF, vsFrame, frameVars, workerVars, readerVars, ctlVars, exited>>
    /\ UNCHANGED flowVars

cornerFinderJob == cornerFinderJobOf(JobOutputs)

\* The same with the source delivering frame number id only.
cornerFinderJobOn(id) == cornerFinderJobOf(JobOutputsOn({id}))

\* ---------------------------------------------------------------- reader

\* cornerFinderResultsLockAndFetch: locks, copies the flag and the corners out
\* and hands out the pointer to the published pixels; the lock stays held.
cornerFinderResultsLockAndFetch ==
    /\ readerPc = "idle"
    /\ resultLockAvailable
    /\ m_cornerFinderResultLock' = "reader"
    /\ fetched' = m_cornerFinderResultData
    /\ readerPc' = "locked"
    /\ UNCHANGED <<sessVars, m_cornerFinderData, m_cornerFinderResultData, handleVars,
                   vsFrame, frameVars, workerVars, ctlVars, exited>>
    /\ UNCHANGED flowVars

\* cornerFinderResultsUnlock.
cornerFinderResultsUnlock ==
    /\ readerPc = "locked"
    /\ m_cornerFinderResultLock' = "free"
    /\ fetched' = NoFetch
    /\ readerPc' = "idle"
    /\ UNCHANGED <<sessVars, m_cornerFinderData, m_cornerFinderResultData, handleVars,
                   vsFrame, frameVars, workerVars, ctlVars, exited>>
    /\ UNCHANGED flowVars

\* ---------------------------------------------------------------- capture()

\* Mutant: the size test off by one (> for >=).
captureFullOffByOne == Len(m_corners) > m_calibImageCountMax

\* capture(): if (m_corners.size() >= m_calibImageCountMax) return false.
captureFull == Len(m_corners) >= m_calibImageCountMax

\* Mutant: the found-flag is not tested.
captureFoundAlways == TRUE

\* capture(): if (m_cornerFinderResultData.cornerFoundAllFlag).
captureFound == m_cornerFinderResultData.cornerFoundAllFlag # 0

\* Mutant: the new set is inserted at the front.
capturePushFront(c) == <<c>> \o m_corners

\* capture(): m_corners.push_back(c).
capturePush(c) == Append(m_corners, c)

\* Mutant: the oldest set is removed instead of the newest.
uncapturePopFront == Tail(m_corners)

\* uncapture(): m_corners.pop_back().
uncapturePop == SubSeq(m_corners, 1, Len(m_corners) - 1)

\* uncapture() and uncaptureAll(): if (m_corners.size() <= 0) return false.
uncaptureEmpty == Len(m_corners) <= 0

\* Mutant: only the newest set is removed.
uncaptureAllPopBack == SubSeq(m_corners, 1, Len(m_corners) - 1)

\* uncaptureAll(): m_corners.clear().
uncaptureAllClear == <<>>

\* The caller enters capture(), uncapture() or uncaptureAll().
ctlCall ==
    /\ ctlPc = "idle"
    /\ \E op \in {"capture", "uncapture", "uncaptureAll"} :
          /\ op = "capture" => m_cornerFinderResultData.corners.ref < MaxRefine
          /\ ctlPc' = op
    /\ UNCHANGED <<sessVars, dataVars, handleVars, vsFrame, frameVars, workerVars,
                   readerVars, saved, lastOp, lastRet, repeated, exited>>
    /\ UNCHANGED flowVars

\* capture(): the size test; saved = false.
captureCheck ==
    /\ ctlPc = "capture"
    /\ IF captureFull
       THEN /\ ctlPc' = "idle"
            /\ lastOp' = "capture"
            /\ lastRet' = FALSE
            /\ repeated' = (lastOp = "capture")
       ELSE /\ ctlPc' = "captureLock"
            /\ UNCHANGED <<lastOp, lastRet, repeated>>
    /\ saved' = FALSE
    /\ UNCHANGED <<sessVars, dataVars, handleVars, vsFrame, frameVars, workerVars,
                   readerVars, exited>>
    /\ UNCHANGED flowVars

\* capture(): pthread_mutex_lock(&m_cornerFinderResultLock).
captureLock ==
    /\ ctlPc = "captureLock"
    /\ resultLockAvailable
    /\ m_cornerFinderResultLock' = "capture"
    /\ ctlPc' = "captureResult"
    /\ UNCHANGED <<sessVars, m_cornerFinderData, m_cornerFinderResultData, handleVars,
                   vsFrame, frameVars, workerVars, readerVars, saved, lastOp,
                   lastRet, repeated, exited>>
    /\ UNCHANGED flowVars

\* capture(): with the flag set, cornerSubPix refines the published corners in
\* place and the refined vector is pushed onto m_corners.
captureResult ==
    /\ ctlPc = "captureResult"
    /\ IF captureFound
       THEN /\ m_cornerFinderResultData' = [m_cornerFinderResultData EXCEPT
                   !.corners = cornerSubPix(@)]
            /\ m_corners' = capturePush(cornerSubPix(m_cornerFinderResultData.corners))
            /\ saved' = TRUE
       ELSE UNCHANGED <<m_cornerFinderResultData, m_corners, saved>>
    /\ ctlPc' = "captureUnlock"
    /\ UNCHANGED <<m_patternType, m_calibImageCountMax, m_cornerFinderData,
                   m_cornerFinderResultLock, handleVars, vsFrame, frameVars,
                   workerVars, readerVars, lastOp, lastRet, repeated, exited>>
    /\ UNCHANGED flowVars

\* capture(): pthread_mutex_unlock; return saved.
captureUnlock ==
    /\ ctlPc = "captureUnlock"
    /\ m_cornerFinderResultLock' = "free"
    /\ ctlPc' = "idle"
    /\ lastOp' = "capture"
    /\ lastRet' = saved
    /\ repeated' = (lastOp = "capture")
    /\ saved' = FALSE
    /\ UNCHANGED <<sessVars, m_cornerFinderData, m_cornerFinderResultData, handleVars,
                   vsFrame, frameVars, workerVars, readerVars, exited>>
    /\ UNCHANGED flowVars

\* uncapture().
uncapture ==
    /\ ctlPc = "uncapture"
    /\ IF uncaptureEmpty
       THEN /\ lastRet' = FALSE
            /\ UNCHANGED m_corners
       ELSE /\ m_corners' = uncapturePop
            /\ lastRet' = TRUE
    /\ lastOp' = "uncapture"
    /\ repeated' = (lastOp = "uncapture")
    /\ ctlPc' = "idle"
    /\ UNCHANGED <<m_patternType, m_calibImageCountMax, dataVars, handleVars, vsFrame,
                   frameVars, workerVars, readerVars, saved, exited>>
    /\ UNCHANGED flowVars

\* uncaptureAll().
uncaptureAll ==
    /\ ctlPc = "uncaptureAll"
    /\ IF uncaptureEmpty
       THEN /\ lastRet' = FALSE
            /\ UNCHANGED m_corners
       ELSE /\ m_corners' = uncaptureAllClear
            /\ lastRet' = TRUE
    /\ lastOp' = "uncaptureAll"
    /\ repeated' = (lastOp = "uncaptureAll")
    /\ ctlPc' = "idle"
    /\ UNCHANGED <<m_patternType, m_calibImageCountMax, dataVars, handleVars, vsFrame,
                   frameVars, workerVars, readerVars, saved, exited>>
    /\ UNCHANGED flowVars

\* ---------------------------------------------------------------- main thread (flow)

\* Largest number of accepted posts between two deliveries.
MaxPosts == 3

\* Variables of the session that the flow functions themselves never touch.
pipeVars == <<dataVars, handleVars, vsFrame, frameVars, workerVars, readerVars, exited>>

\* flowStateGet(): NOT_INITED before gInited, else gState read under gStateLock.
flowStateGet == IF ~gInited THEN "NOT_INITED" ELSE gState

\* flowStateSet(state), as the new value of gState: returns at once before gInited.
flowStateSet(state) == IF ~gInited THEN gState ELSE state

\* flowInitAndStart up to pthread_create: gStop = false, the thread exists.
flowInitAndStart ==
    /\ mainPc = "startVideo"
    /\ gStop' = FALSE
    /\ flowPc' = "flowThread"
    /\ mainPc' = "flowInitAndStart"
    /\ UNCHANGED <<sessVars, pipeVars, ctlVars, gInited, gState, gEvent, gEventMask,
                   key, handled, event, captureDoneSinceBackButtonLastPressed, histVars>>

\* flowInitAndStart after pthread_create: gInited = true; return true.
flowInitAndStartInited ==
    /\ mainPc = "flowInitAndStart"
    /\ gInited' = TRUE
    /\ mainPc' = "loop"
    /\ UNCHANGED <<sessVars, pipeVars, ctlVars, gState, gEvent, gEventMask, gStop,
                   key, handled, threadVars, histVars>>

\* Main loop: SDL_PollEvent delivers a key press (between two frame() calls)
\* and flowHandleEvent is called with its event.
pollEvent ==
    /\ mainPc = "loop" /\ framePc = "idle"
    /\ gEvent # EVENT_NONE => accepted < MaxPosts
    /\ key' \in Events
    /\ mainPc' = "flowHandleEvent"
    /\ UNCHANGED <<sessVars, pipeVars, ctlVars, globalVars, handled, threadVars, histVars>>

\* Mutant: a pending event is kept, the new one is dropped.
flowHandleEventKeepFirst(e) == IF gEvent = EVENT_NONE THEN e ELSE gEvent

\* flowHandleEvent: gEvent = event.
flowHandleEventStore(e) == e

\* Mutant: every event passes the mask.
flowHandleEventUnmasked(e) == FALSE

\* flowHandleEvent: (event & gEventMask) == EVENT_NONE.
flowHandleEventDiscards(e) == (e \cap gEventMask) = EVENT_NONE

\* flowHandleEvent(e): if (!gInited) return false; then, under gEventLock, the
\* event is discarded or stored (and gEventCond signalled).
flowHandleEventOn(e) ==
    IF ~gInited \/ flowHandleEventDiscards(e)
    THEN /\ handled' = FALSE
         /\ UNCHANGED <<gEvent, accepted, lastAccepted, acceptedState>>
    ELSE /\ gEvent' = flowHandleEventStore(e)
         /\ handled' = TRUE
         /\ accepted' = IF gEvent = EVENT_NONE THEN 1 ELSE accepted + 1
         /\ lastAccepted' = e
         /\ acceptedState' = gState

\* The main loop's call flowHandleEvent(key).  (Whether the call is logged in
\* lastCall is left to the specification.)
flowHandleEvent ==
    /\ mainPc = "flowHandleEvent"
    /\ flowHandleEventOn(key)
    /\ key' = EVENT_NONE
    /\ mainPc' = "loop"
    /\ UNCHANGED <<sessVars, pipeVars, ctlVars, gInited, gState, gEventMask, gStop,
                   threadVars, callbacks, publishedInEarlierRun>>

\* The log entry of a flowHandleEvent call: the state flowStateGet() reports
\* at the call, and the call's result.
flowHandleEventLogged ==
    lastCall' = [fn |-> "flowHandleEvent", state |-> flowStateGet, ret |-> handled']

\* A key press before flowInitAndStart or after flowStopAndFinal has returned:
\* flowHandleEvent(e) is called all the same.
flowHandleEventOutside ==
    /\ mainPc \in {"startVideo", "stopped"}
    /\ \E e \in Events : flowHandleEventOn(e)
    /\ flowHandleEventLogged
    /\ UNCHANGED <<sessVars, pipeVars, ctlVars, gInited, gState, gEventMask, gStop,
                   mainPc, key, threadVars, callbacks, publishedInEarlierRun>>

\* Main loop: if (flowStateGet() == FLOW_STATE_CAPTURING) gCalibration->frame(vs).
mainCallsFrame == mainPc = "loop" /\ flowStateGet = "CAPTURING"

\* flowStopAndFinal up to pthread_join: gStop = true; pthread_cancel(gThread).
flowStopAndFinal ==
    /\ mainPc = "loop" /\ framePc = "idle"
    /\ gInited
    /\ gStop' = TRUE
    /\ mainPc' = "pthread_join"
    /\ UNCHANGED <<sessVars, pipeVars, ctlVars, gInited, gState, gEvent, gEventMask,
                   key, handled, threadVars, histVars>>

\* flowStopAndFinal in the ANDROID build, up to pthread_join: gStop = true, and
\* no pthread_cancel.
flowStopAndFinalAndroid ==
    /\ mainPc = "loop" /\ framePc = "idle"
    /\ gInited
    /\ gStop' = TRUE
    /\ mainPc' = "pthread_join_android"
    /\ UNCHANGED <<sessVars, pipeVars, ctlVars, gInited, gState, gEvent, gEventMask,
                   key, handled, threadVars, histVars>>

\* stopVideo before flowInitAndStart or after flowStopAndFinal has returned:
\* flowStopAndFinal() finds !gInited and returns false.
flowStopAndFinalOutside ==
    /\ mainPc \in {"startVideo", "stopped"}
    /\ IF ~gInited
       THEN /\ lastCall' = [fn |-> "flowStopAndFinal", state |-> flowStateGet, ret |-> FALSE]
            /\ UNCHANGED <<gStop, mainPc>>
       ELSE /\ gStop' = TRUE
            /\ mainPc' = "pthread_join"
            /\ UNCHANGED lastCall
    /\ UNCHANGED <<sessVars, pipeVars, ctlVars, gInited, gState, gEvent, gEventMask,
                   key, handled, threadVars, accepted, lastAccepted, acceptedState,
                   callbacks, publishedInEarlierRun>>

\* Mutant: flowStopAndFinal returns without clearing gInited.
flowStopAndFinalJoinedStillInited ==
    /\ mainPc \in {"pthread_join", "pthread_join_android"}
    /\ flowPc = "exited"
    /\ gState' = "NOT_INITED"
    /\ mainPc' = "stopped"
    /\ UNCHANGED <<sessVars, pipeVars, ctlVars, gInited, gEvent, gEventMask, gStop,
                   key, handled, threadVars, histVars>>

\* flowStopAndFinal after pthread_join returned: gState = NOT_INITED,
\* gInited = false; return true.
flowStopAndFinalJoined ==
    /\ mainPc \in {"pthread_join", "pthread_join_android"}
    /\ flowPc = "exited"
    /\ gState' = "NOT_INITED"
    /\ gInited' = FALSE
    /\ mainPc' = "stopped"
    /\ UNCHANGED <<sessVars, pipeVars, ctlVars, gEvent, gEventMask, gStop,
                   key, handled, threadVars, histVars>>

\* ---------------------------------------------------------------- flowThread

\* flowSetEventMask(eventMask) at position pc of flowThread.
flowSetEventMask(pc, eventMask, next) ==
    /\ flowPc = pc
    /\ gEventMask' = eventMask
    /\ flowPc' = next
    /\ UNCHANGED <<sessVars, pipeVars, ctlVars, gInited, gState, gEvent, gStop, mainVars,
                   event, captureDoneSinceBackButtonLastPressed, histVars>>

\* Mutant: the wait returns the pending event and leaves it in the slot.
flowWaitForEventKeeps(pc, assigned, next) ==
    /\ flowPc = pc
    /\ gEvent # EVENT_NONE \/ gStop
    /\ event' = IF assigned THEN gEvent ELSE event
    /\ flowPc' = next
    /\ UNCHANGED <<sessVars, pipeVars, ctlVars, globalVars, mainVars,
                   captureDoneSinceBackButtonLastPressed, histVars>>

\* flowWaitForEvent() at position pc: waits while gEvent == EVENT_NONE && !gStop,
\* then returns gEvent and clears it.  assigned: the caller stores the result
\* in event.
flowWaitForEvent(pc, assigned, next) ==
    /\ flowPc = pc
    /\ gEvent # EVENT_NONE \/ gStop
    /\ event' = IF assigned THEN gEvent ELSE event
    /\ gEvent' = EVENT_NONE
    /\ flowPc' = next
    /\ UNCHANGED <<sessVars, pipeVars, ctlVars, gInited, gState, gEventMask, gStop, mainVars,
                   captureDoneSinceBackButtonLastPressed, histVars>>

\* A step of flowThread that only moves on.
flowGoto(next) ==
    /\ flowPc' = next
    /\ UNCHANGED <<sessVars, pipeVars, ctlVars, globalVars, mainVars,
                   event, captureDoneSinceBackButtonLastPressed, histVars>>

\* flowThread: flowStateSet(FLOW_STATE_WELCOME).
flowThreadStart ==
    /\ flowPc = "flowThread"
    /\ gState' = flowStateSet("WELCOME")
    /\ flowPc' = "while"
    /\ UNCHANGED <<sessVars, pipeVars, ctlVars, gInited, gEvent, gEventMask, gStop, mainVars,
                   event, captureDoneSinceBackButtonLastPressed, histVars>>

\* while (!gStop).
flowWhile ==
    /\ flowPc = "while"
    /\ flowGoto(IF gStop THEN "exit" ELSE "welcomeMask")

\* flowSetEventMask(EVENT_TOUCH | EVENT_MODAL).
welcomeMask == flowSetEventMask("welcomeMask", EVENT_TOUCH \cup EVENT_MODAL, "welcomeWait")

\* event = flowWaitForEvent().
welcomeWait == flowWaitForEvent("welcomeWait", TRUE, "welcomeEvent")

\* if (gStop) break; if (event == EVENT_MODAL) ...; else start capturing:
\* captureDoneSinceBackButtonLastPressed = false; flowStateSet(FLOW_STATE_CAPTURING).
welcomeEvent ==
    /\ flowPc = "welcomeEvent"
    /\ IF gStop
       THEN /\ flowPc' = "exit"
            /\ UNCHANGED <<gState, captureDoneSinceBackButtonLastPressed, callbacks,
                           publishedInEarlierRun>>
       ELSE IF event = EVENT_MODAL
       THEN /\ flowPc' = "modalMask"
            /\ UNCHANGED <<gState, captureDoneSinceBackButtonLastPressed, callbacks,
                           publishedInEarlierRun>>
       ELSE /\ captureDoneSinceBackButtonLastPressed' = FALSE
            /\ gState' = flowStateSet("CAPTURING")
            /\ callbacks' = 0
            /\ publishedInEarlierRun' = TRUE
            /\ flowPc' = "capturingMask"
    /\ UNCHANGED <<sessVars, pipeVars, ctlVars, gInited, gEvent, gEventMask, gStop, mainVars,
                   event, accepted, lastAccepted, acceptedState, lastCall>>

\* flowSetEventMask(EVENT_MODAL).
modalMask == flowSetEventMask("modalMask", EVENT_MODAL, "modalWait")

\* Mutant: after the nested wait the event is handled as if it came from the
\* first wait, without going back to the top of the loop.
modalWaitFallsThrough == flowWaitForEvent("modalWait", TRUE, "welcomeEvent")

\* event = flowWaitForEvent(); continue.
modalWait == flowWaitForEvent("modalWait", TRUE, "while")

\* flowSetEventMask(EVENT_TOUCH | EVENT_BACK_BUTTON).
capturingMask ==
    flowSetEventMask("capturingMask", EVENT_TOUCH \cup EVENT_BACK_BUTTON, "captureWait")

\* do { ... event = flowWaitForEvent().
captureWait == flowWaitForEvent("captureWait", TRUE, "captureEvent")

\* Mutant: the back button always undoes one capture.
backButtonUndoesOneAlways == TRUE

\* if (!captureDoneSinceBackButtonLastPressed) uncaptureAll ... else uncapture.
backButtonUndoesOne == captureDoneSinceBackButtonLastPressed

\* if (gStop) break; TOUCH: capture(); BACK_BUTTON: uncaptureAll() and break,
\* or uncapture().  The call enters the session's method.
captureEvent ==
    /\ flowPc = "captureEvent"
    /\ ctlPc = "idle"
    /\ IF gStop
       THEN flowPc' = "ifCount" /\ UNCHANGED ctlPc
       ELSE IF event = EVENT_TOUCH
       THEN /\ m_cornerFinderResultData.corners.ref < MaxRefine
            /\ ctlPc' = "capture" /\ flowPc' = "captureRet"
       ELSE IF event = EVENT_BACK_BUTTON
       THEN IF ~backButtonUndoesOne
            THEN ctlPc' = "uncaptureAll" /\ flowPc' = "uncaptureAllRet"
            ELSE ctlPc' = "uncapture" /\ flowPc' = "uncaptureRet"
       ELSE flowPc' = "doWhile" /\ UNCHANGED ctlPc
    /\ UNCHANGED <<sessVars, pipeVars, saved, lastOp, lastRet, repeated, globalVars, mainVars,
                   event, captureDoneSinceBackButtonLastPressed, histVars>>

\* if (gFlowCalib->capture()) captureDoneSinceBackButtonLastPressed = true.
captureRet ==
    /\ flowPc = "captureRet"
    /\ ctlPc = "idle"
    /\ captureDoneSinceBackButtonLastPressed' =
           IF lastRet THEN TRUE ELSE captureDoneSinceBackButtonLastPressed
    /\ flowPc' = "doWhile"
    /\ UNCHANGED <<sessVars, pipeVars, ctlVars, globalVars, mainVars, event, histVars>>

\* gFlowCalib->uncaptureAll() returned; break.
uncaptureAllRet ==
    /\ flowPc = "uncaptureAllRet"
    /\ ctlPc = "idle"
    /\ flowGoto("ifCount")

\* gFlowCalib->uncapture() returned; captureDoneSinceBackButtonLastPressed = false.
uncaptureRet ==
    /\ flowPc = "uncaptureRet"
    /\ ctlPc = "idle"
    /\ captureDoneSinceBackButtonLastPressed' = FALSE
    /\ flowPc' = "doWhile"
    /\ UNCHANGED <<sessVars, pipeVars, ctlVars, globalVars, mainVars, event, histVars>>

\* } while (calibImageCount() < calibImageCountMax()).
doWhile ==
    /\ flowPc = "doWhile"
    /\ flowGoto(IF Len(m_corners) < m_calibImageCountMax THEN "captureWait" ELSE "ifCount")

\* Mutant: the run is calibrated whatever the count.
ifCountCalibrates ==
    /\ flowPc = "ifCount"
    /\ flowPc' = "calibMask"
    /\ publishedInEarlierRun' = FALSE
    /\ UNCHANGED <<sessVars, pipeVars, ctlVars, globalVars, mainVars, event,
                   captureDoneSinceBackButtonLastPressed, accepted, lastAccepted,
                   acceptedState, callbacks, lastCall>>

\* The capture loop is left.  if (calibImageCount() < calibImageCountMax()):
\* cancelled, else calibrate.
ifCount ==
    /\ flowPc = "ifCount"
    /\ flowPc' = IF Len(m_corners) < m_calibImageCountMax THEN "cancelMask" ELSE "calibMask"
    /\ publishedInEarlierRun' = FALSE
    /\ UNCHANGED <<sessVars, pipeVars, ctlVars, globalVars, mainVars, event,
                   captureDoneSinceBackButtonLastPressed, accepted, lastAccepted,
                   acceptedState, callbacks, lastCall>>

\* Cancelled run: flowSetEventMask(EVENT_TOUCH).
cancelMask == flowSetEventMask("cancelMask", EVENT_TOUCH, "cancelState")

\* Mutant: the state set at the end of a run is WELCOME.
flowStateSetWelcome(pc, next) ==
    /\ flowPc = pc
    /\ gState' = flowStateSet("WELCOME")
    /\ flowPc' = next
    /\ UNCHANGED <<sessVars, pipeVars, ctlVars, gInited, gEvent, gEventMask, gStop, mainVars,
                   event, captureDoneSinceBackButtonLastPressed, histVars>>

\* flowStateSet(FLOW_STATE_DONE) at position pc.
flowStateSetDone(pc, next) ==
    /\ flowPc = pc
    /\ gState' = flowStateSet("DONE")
    /\ flowPc' = next
    /\ UNCHANGED <<sessVars, pipeVars, ctlVars, gInited, gEvent, gEventMask, gStop, mainVars,
                   event, captureDoneSinceBackButtonLastPressed, histVars>>

\* Cancelled run: flowStateSet(FLOW_STATE_DONE); "Calibration canceled".
cancelState == flowStateSetDone("cancelState", "cancelWait")

\* Cancelled run: flowWaitForEvent() (the result is dropped).
cancelWait == flowWaitForEvent("cancelWait", FALSE, "cancelEvent")

\* if (gStop) break; otherwise the next turn of while (!gStop).
cancelEvent ==
    /\ flowPc = "cancelEvent"
    /\ flowGoto(IF gStop THEN "exit" ELSE "while")

\* Mutant: the solver runs with TOUCH still let through.
calibMaskTouch == flowSetEventMask("calibMask", EVENT_TOUCH, "calibState")

\* Completed run: flowSetEventMask(EVENT_NONE).
calibMask == flowSetEventMask("calibMask", EVENT_NONE, "calibState")

\* Mutant: the state is not set before the solver runs.
calibStateSkipped ==
    /\ flowPc = "calibState"
    /\ flowGoto("calib")

\* flowStateSet(FLOW_STATE_CALIBRATING).
calibState ==
    /\ flowPc = "calibState"
    /\ gState' = flowStateSet("CALIBRATING")
    /\ flowPc' = "calib"
    /\ UNCHANGED <<sessVars, pipeVars, ctlVars, gInited, gEvent, gEventMask, gStop, mainVars,
                   event, captureDoneSinceBackButtonLastPressed, histVars>>

\* gFlowCalib->calib(&param, ...): reads m_corners, runs the solver.
calib ==
    /\ flowPc = "calib"
    /\ flowGoto("callback")

\* if (gCallback) (*gCallback)(&param, ...): the callback is entered.
callback ==
    /\ flowPc = "callback"
    /\ callbacks' = callbacks + 1
    /\ flowPc' = "callbackRet"
    /\ UNCHANGED <<sessVars, pipeVars, ctlVars, globalVars, mainVars,
                   event, captureDoneSinceBackButtonLastPressed, accepted, lastAccepted,
                   acceptedState, lastCall, publishedInEarlierRun>>

\* The callback returned; gFlowCalib->uncaptureAll() is entered.
callbackRet ==
    /\ flowPc = "callbackRet"
    /\ ctlPc = "idle"
    /\ ctlPc' = "uncaptureAll"
    /\ flowPc' = "resetRet"
    /\ UNCHANGED <<sessVars, pipeVars, saved, lastOp, lastRet, repeated, globalVars, mainVars,
                   event, captureDoneSinceBackButtonLastPressed, histVars>>

\* Mutant: the controller waits for an event before it leaves CALIBRATING.
resetRetAwaitsEvent ==
    /\ ctlPc = "idle" /\ gEvent # EVENT_NONE
    /\ flowSetEventMask("resetRet", EVENT_TOUCH, "doneState")

\* uncaptureAll() returned; flowSetEventMask(EVENT_TOUCH).
resetRet ==
    /\ ctlPc = "idle"
    /\ flowSetEventMask("resetRet", EVENT_TOUCH, "doneState")

\* Completed run: flowStateSet(FLOW_STATE_DONE); the result message.
doneState == flowStateSetDone("doneState", "doneWait")

\* Completed run: flowWaitForEvent() (the result is dropped).
doneWait == flowWaitForEvent("doneWait", FALSE, "doneEvent")

\* if (gStop) break; otherwise the next turn of while (!gStop).
doneEvent ==
    /\ flowPc = "doneEvent"
    /\ flowGoto(IF gStop THEN "exit" ELSE "while")

\* After the loop: pthread_cleanup_pop(1); return.
flowThreadExit ==
    /\ flowPc = "exit"
    /\ flowGoto("exited")

\* Mutant: pthread_cancel never acts.
CancellationPointsNone == {}

\* Positions of flowThread at a cancellation point: blocked in
\* pthread_cond_wait, or writing a message (ARLOGi, printf, the callback's and
\* the solver's output).
CancellationPoints ==
    {"while", "welcomeWait", "welcomeEvent", "modalWait", "captureWait", "cancelWait",
     "calib", "callbackRet", "doneWait"}

\* pthread_cancel(gThread) acts: flowThreadCleanup runs and the thread ends.
flowThreadCancelled ==
    /\ mainPc = "pthread_join"
    /\ flowPc \in CancellationPoints
    /\ flowGoto("exited")

\* ---------------------------------------------------------------- specification

\* After exit() no thread takes a step.
running == ~exited

\* The session with its frame pump, its worker, the video source and a reader:
\* every interleaving of frame() with cornerFinder.
Init == InitSession(PatternTypes, {MaxCount})

Next ==
    \/ running /\ frameGetStatus
    \/ running /\ frameEndWait
    \/ running /\ frameLock
    \/ running /\ frameCopy
    \/ running /\ frameUnlock
    \/ running /\ frameGetBusyStatus
    \/ running /\ frameCheckout
    \/ running /\ frameMemcpy
    \/ running /\ frameStartSignal
    \/ running /\ videoNewFrame
    \/ running /\ workerStartWait
    \/ running /\ workerDetect
    \/ running /\ workerStoreFlag
    \/ running /\ workerEndSignal
    \/ running /\ cornerFinderResultsLockAndFetch
    \/ running /\ cornerFinderResultsUnlock

Spec == Init /\ [][Next]_vars

\* The session with the caller of capture() / uncapture() / uncaptureAll(), a
\* reader and frame() publishing results; the source frames and the worker's
\* jobs on them are taken one whole job at a time (cornerFinderJob).
InitCtl == InitSession({"CHESSBOARD"}, 1..MaxCount)

NextCtl ==
    \/ running /\ cornerFinderJob
    \/ running /\ frameGetStatus
    \/ running /\ frameEndWait
    \/ running /\ frameLock
    \/ running /\ frameCopy
    \/ running /\ frameUnlock
    \/ running /\ frameGetBusyStatus
    \/ running /\ frameCheckout
    \/ running /\ cornerFinderResultsLockAndFetch
    \/ running /\ cornerFinderResultsUnlock
    \/ running /\ ctlCall
    \/ running /\ captureCheck
    \/ running /\ captureLock
    \/ running /\ captureResult
    \/ running /\ captureUnlock
    \/ running /\ uncapture
    \/ running /\ uncaptureAll

SpecCtl == InitCtl /\ [][NextCtl]_vars

\* The session driven by the controller: the main thread starts the flow,
\* posts key events, pumps frame() while capturing and stops the flow;
\* flowThread calls capture(), uncapture(), uncaptureAll() and calib().  The
\* worker's jobs are taken one whole job at a time, on one source frame.
InitFlow == InitSession({"CHESSBOARD"}, {MaxCount + 1})

NextFlow ==
    \/ flowInitAndStart
    \/ flowInitAndStartInited
    \/ pollEvent
    \/ flowHandleEvent /\ UNCHANGED lastCall
    \/ flowStopAndFinal
    \/ flowStopAndFinalJoined
    \/ mainPc = "loop" /\ cornerFinderJobOn(1)
    \/ mainCallsFrame /\ frameGetStatus
    \/ frameEndWait
    \/ frameLock
    \/ frameCopy
    \/ frameUnlock
    \/ frameGetBusyStatus
    \/ frameCheckout
    \/ flowThreadStart
    \/ flowWhile
    \/ welcomeMask
    \/ welcomeWait
    \/ welcomeEvent
    \/ modalMask
    \/ modalWait
    \/ capturingMask
    \/ captureWait
    \/ captureEvent
    \/ captureCheck
    \/ captureLock
    \/ captureResult
    \/ captureUnlock
    \/ uncapture
    \/ uncaptureAll
    \/ captureRet
    \/ uncaptureAllRet
    \/ uncaptureRet
    \/ doWhile
    \/ ifCount
    \/ cancelMask
    \/ cancelState
    \/ cancelWait
    \/ cancelEvent
    \/ calibMask
    \/ calibState
    \/ calib
    \/ callback
    \/ callbackRet
    \/ resetRet
    \/ doneState
    \/ doneWait
    \/ doneEvent
    \/ flowThreadExit
    \/ flowThreadCancelled

SpecFlow == InitFlow /\ [][NextFlow]_vars

\* The life of the flow controller: the calls the main thread makes before
\* flowInitAndStart and after flowStopAndFinal, the stop of either build, and a
\* log of the main thread's calls; a calibration run takes MaxCount captures.
InitLife == InitSession({"CHESSBOARD"}, {MaxCount})

NextLife ==
    \/ flowInitAndStart
    \/ flowInitAndStartInited
    \/ pollEvent
    \/ flowHandleEvent /\ flowHandleEventLogged
    \/ flowStopAndFinal
    \/ flowStopAndFinalAndroid
    \/ flowStopAndFinalOutside
    \/ flowHandleEventOutside
    \/ flowStopAndFinalJoined
    \/ mainPc = "loop" /\ cornerFinderJobOn(1)
    \/ mainCallsFrame /\ frameGetStatus
    \/ frameEndWait
    \/ frameLock
    \/ frameCopy
    \/ frameUnlock
    \/ frameGetBusyStatus
    \/ frameCheckout
    \/ flowThreadStart
    \/ flowWhile
    \/ welcomeMask
    \/ welcomeWait
    \/ welcomeEvent
    \/ modalMask
    \/ modalWait
    \/ capturingMask
    \/ captureWait
    \/ captureEvent
    \/ captureCheck
    \/ captureLock
    \/ captureResult
    \/ captureUnlock
    \/ uncapture
    \/ uncaptureAll
    \/ captureRet
    \/ uncaptureAllRet
    \/ uncaptureRet
    \/ doWhile
    \/ ifCount
    \/ cancelMask
    \/ cancelState
    \/ cancelWait
    \/ cancelEvent
    \/ calibMask
    \/ calibState
    \/ calib
    \/ callback
    \/ callbackRet
    \/ resetRet
    \/ doneState
    \/ doneWait
    \/ doneEvent
    \/ flowThreadExit
    \/ flowThreadCancelled

SpecLife == InitLife /\ [][NextLife]_vars

\* The steps flowThread takes by itself: every statement of the thread and of
\* the session operations it calls, except the return of a wait.
flowThreadRuns ==
    \/ flowThreadStart \/ flowWhile \/ welcomeMask \/ welcomeEvent \/ modalMask
    \/ capturingMask \/ captureEvent
    \/ captureCheck \/ captureLock \/ captureResult \/ captureUnlock
    \/ uncapture \/ uncaptureAll
    \/ captureRet \/ uncaptureAllRet \/ uncaptureRet \/ doWhile \/ ifCount
    \/ cancelMask \/ cancelState \/ cancelEvent
    \/ calibMask \/ calibState \/ calib \/ callback \/ callbackRet \/ resetRet
    \/ doneState \/ doneEvent \/ flowThreadExit

\* The return of a wait that is sure to come: gEvent is set (the poster has
\* signalled gEventCond), or the ANDROID build's timed wait expires with gStop
\* set.  Without either, pthread_cond_wait need not return.
flowThreadWakes ==
    /\ gEvent # EVENT_NONE \/ mainPc = "pthread_join_android"
    /\ (welcomeWait \/ modalWait \/ captureWait \/ cancelWait \/ doneWait)

\* SpecLife with the scheduling the code relies on: a thread that can run
\* does run, a waiter that was signalled or whose timed wait expires returns,
\* a pending pthread_cancel acts on a thread that stays at a cancellation
\* point, and pthread_join returns once the thread has ended.  The main
\* thread's own calls are not forced.
SpecLifeFair ==
    /\ SpecLife
    /\ WF_vars(flowThreadRuns)
    /\ WF_vars(flowThreadWakes)
    /\ WF_vars(flowThreadCancelled)
    /\ WF_vars(flowStopAndFinalJoined)


\* ---------------------------------------------------------------- properties

\* The three critical sections on m_cornerFinderResultData.
InFrameCS == framePc \in {"copy", "unlock"}
InReaderCS == readerPc = "locked"
InCaptureCS == ctlPc \in {"captureResult", "captureUnlock"}

\* A step with which the caller leaves the given position.
ctlLeaves(pc) == ctlPc = pc /\ ctlPc' # pc

\* C1: in every reachable state the number of captured sets is at most the
\* configured maximum, whatever capture(), uncapture(), uncaptureAll() and
\* frame() steps came before.
C1_CountWithinMax == Len(m_corners) <= m_calibImageCountMax

\* C1 witness: the collection is full and a capture() on it was refused.
C1_Witness ==
    /\ Len(m_corners) = m_calibImageCountMax
    /\ m_calibImageCountMax = MaxCount
    /\ ctlPc = "idle" /\ lastOp = "capture" /\ lastRet = FALSE

\* C2: capture() returns false and leaves the collection unchanged when the
\* count has reached the maximum (at its size test) or when the published
\* found-flag is false (at its locked access); no step makes the collection
\* longer while the published found-flag is false.
C2_CaptureRefused ==
    [][ /\ (ctlLeaves("capture") /\ Len(m_corners) >= m_calibImageCountMax)
              => (ctlPc' = "idle" /\ lastOp' = "capture" /\ lastRet' = FALSE
                  /\ m_corners' = m_corners
                  /\ m_cornerFinderResultData' = m_cornerFinderResultData)
        /\ (ctlLeaves("captureResult") /\ m_cornerFinderResultData.cornerFoundAllFlag = 0)
              => (saved' = FALSE /\ m_corners' = m_corners
                  /\ m_cornerFinderResultData' = m_cornerFinderResultData)
        /\ (ctlLeaves("captureUnlock") /\ ~saved)
              => (ctlPc' = "idle" /\ lastOp' = "capture" /\ lastRet' = FALSE
                  /\ m_corners' = m_corners)
        /\ m_cornerFinderResultData.cornerFoundAllFlag = 0
              => Len(m_corners') <= Len(m_corners)
      ]_vars

\* C2 witness: a capture() with room left was refused before anything was
\* published (the published flag is the constructor's 0).
C2_Witness ==
    /\ ctlPc = "idle" /\ lastOp = "capture" /\ lastRet = FALSE
    /\ Len(m_corners) < m_calibImageCountMax
    /\ m_cornerFinderResultData = CalibrationCornerFinderData(FALSE)
    /\ m_cornerFinderData.cornerFoundAllFlag = 1

\* C3: when capture() finds the published found-flag true (the count being
\* below the maximum), it appends cornerSubPix of the published corners as the
\* last set, leaves the earlier sets as they were and returns true.
C3_CaptureAppends ==
    [][ /\ (ctlLeaves("capture") /\ Len(m_corners) < m_calibImageCountMax)
              => (ctlPc' = "captureLock" /\ m_corners' = m_corners)
        /\ (ctlLeaves("captureResult") /\ m_cornerFinderResultData.cornerFoundAllFlag # 0)
              => (/\ Len(m_corners) < m_calibImageCountMax
                  /\ saved' = TRUE
                  /\ Len(m_corners') = Len(m_corners) + 1
                  /\ m_corners'[Len(m_corners')] =
                         cornerSubPix(m_cornerFinderResultData.corners)
                  /\ SubSeq(m_corners', 1, Len(m_corners)) = m_corners)
        /\ (ctlLeaves("captureUnlock") /\ saved)
              => (ctlPc' = "idle" /\ lastOp' = "capture" /\ lastRet' = TRUE
                  /\ m_corners' = m_corners)
      ]_vars

\* C3 witness: a capture() returned true with an earlier, different set in the
\* collection before the new one.
C3_Witness ==
    /\ ctlPc = "idle" /\ lastOp = "capture" /\ lastRet = TRUE
    /\ Len(m_corners) = 2
    /\ m_corners[1].src # m_corners[2].src
    /\ m_corners[2] = m_cornerFinderResultData.corners

\* C4: uncapture() on an empty collection returns false and changes nothing
\* of the session; on a non-empty one it returns true and removes exactly the
\* last set, the others keeping their content and order.
C4_Uncapture ==
    [][ ctlLeaves("uncapture") =>
          /\ ctlPc' = "idle" /\ lastOp' = "uncapture"
          /\ UNCHANGED <<dataVars, handleVars, m_calibImageCountMax>>
          /\ IF Len(m_corners) = 0
             THEN lastRet' = FALSE /\ m_corners' = m_corners
             ELSE /\ lastRet' = TRUE
                  /\ Len(m_corners') = Len(m_corners) - 1
                  /\ \A i \in 1..Len(m_corners') : m_corners'[i] = m_corners[i]
      ]_vars

\* C4 witness: an uncapture() returned true and left a set in the collection
\* (it removed the second of two different sets).
C4_Witness ==
    /\ ctlPc = "idle" /\ lastOp = "uncapture" /\ lastRet = TRUE
    /\ Len(m_corners) = 1
    /\ m_calibImageCountMax >= 2
    /\ m_corners[1].src # m_cornerFinderResultData.corners.src

\* C5: uncaptureAll() on a non-empty collection returns true and leaves it
\* empty; an uncaptureAll() that follows an uncaptureAll() returns false and
\* changes nothing.
C5_UncaptureAll ==
    [][ ctlLeaves("uncaptureAll") =>
          /\ ctlPc' = "idle" /\ lastOp' = "uncaptureAll"
          /\ Len(m_corners) > 0 => (lastRet' = TRUE /\ Len(m_corners') = 0)
          /\ Len(m_corners) = 0 => (lastRet' = FALSE /\ m_corners' = m_corners)
          /\ lastOp = "uncaptureAll" =>
                (lastRet' = FALSE /\ UNCHANGED <<sessVars, dataVars, handleVars>>)
      ]_vars

\* C5 witness: a second uncaptureAll() in a row has returned false.
C5_Witness ==
    /\ ctlPc = "idle" /\ lastOp = "uncaptureAll" /\ repeated
    /\ lastRet = FALSE /\ Len(m_corners) = 0

\* C6: the critical sections of the reader, of frame()'s publish and of
\* capture() exclude one another, and while the reader holds the lock the
\* published flag, corners and frame are the ones it fetched.
C6_ResultLockExcludes ==
    /\ ~(InReaderCS /\ InFrameCS)
    /\ ~(InReaderCS /\ InCaptureCS)
    /\ ~(InFrameCS /\ InCaptureCS)
    /\ InReaderCS => (m_cornerFinderResultLock = "reader"
                      /\ fetched = m_cornerFinderResultData)
    /\ InFrameCS => m_cornerFinderResultLock = "frame"
    /\ InCaptureCS => m_cornerFinderResultLock = "capture"

\* C6 witness: the reader holds a published found result while frame() (with
\* a newer result to publish) and capture() both wait for the lock.
C6_Witness ==
    /\ readerPc = "locked" /\ fetched.cornerFoundAllFlag = 1
    /\ framePc = "lock" /\ ctlPc = "captureLock"
    /\ m_cornerFinderData # m_cornerFinderResultData

\* C7 (as claimed): whenever frame() copies the worker's slot into the
\* published result, the worker is not executing a job.
C7_CopyOnlyWhenWorkerIdle == framePc = "copy" => (busyF = 0 /\ workerPc = "threadStartWait")

\* C8 (as claimed): while frame() copies pixels into the frame buffer, no job
\* is in flight (none signalled and not yet picked up, none being executed).
C8_NoFrameWriteWhileInFlight == framePc = "memcpy" => (startF = 0 /\ busyF = 0)

\* C9 (as claimed): frame() issues threadStartSignal only when no previously
\* signalled job is pending or running.
C9_SignalOnlyWhenIdle ==
    [][(framePc = "threadStartSignal" /\ framePc' = "idle") => (startF = 0 /\ busyF = 0)]_vars

\* C10 (as claimed): frame() neither overwrites the frame buffer nor signals a
\* new job while a completed result waits unpublished (endF set).
C10_PublishedBeforeResubmit ==
    framePc \in {"memcpy", "threadStartSignal"} => endF = 0

\* A result whose flag and corners are what one detection run over its own
\* stored pixels (one whole source frame) gives.
OneRunOver(r) ==
    /\ r.videoFrame \notin {NullImg, GarbageImg}
    /\ r.corners.src = r.videoFrame
    /\ r.cornerFoundAllFlag = (IF ImgVis(r.videoFrame) THEN 1 ELSE 0)

\* C11 (as claimed): the published result is the constructor's empty one or is
\* internally consistent: its flag and its corners are the output of one
\* completed detection run over exactly the pixels stored with them.
C11_ResultConsistent ==
    \/ m_cornerFinderResultData = CalibrationCornerFinderData(FALSE)
    \/ OneRunOver(m_cornerFinderResultData)

\* ---------------------------------------------------------------- properties (flow)

\* The positions where flowThread is inside flowWaitForEvent, those where it
\* stores the returned event, and a step with which a wait returns.
WaitPositions == {"welcomeWait", "modalWait", "captureWait", "cancelWait", "doneWait"}
AssigningWaits == {"welcomeWait", "modalWait", "captureWait"}
WaitReturns == flowPc \in WaitPositions /\ flowPc' \notin {flowPc, "exited"}

\* C12: posts that are accepted before the controller wakes collapse: a
\* returning wait delivers the event of the last accepted post and nothing
\* else, and leaves the slot empty, so the earlier posts are never delivered;
\* the slot changes only by an accepted post (to its event) or a delivery.
C12_EventCollapse ==
    [][ /\ WaitReturns =>
              /\ gEvent' = EVENT_NONE
              /\ gEvent # EVENT_NONE => gEvent = lastAccepted
              /\ flowPc \in AssigningWaits => event' = gEvent
        /\ (gEvent' # gEvent /\ ~WaitReturns) =>
              (mainPc = "flowHandleEvent" /\ gEvent' = key /\ lastAccepted' = key)
        /\ event' # event => WaitReturns
      ]_vars

\* C12 witness: in CAPTURING three posts were accepted before the controller
\* woke, and the one wait delivered BACK_BUTTON, the last of them; the slot is
\* empty.
C12_Witness ==
    /\ flowPc = "captureEvent" /\ gState = "CAPTURING"
    /\ accepted = 3 /\ lastAccepted = EVENT_BACK_BUTTON
    /\ event = EVENT_BACK_BUTTON /\ gEvent = EVENT_NONE

\* A step with which flowHandleEvent(key) returns.
HandleReturns == mainPc = "flowHandleEvent" /\ mainPc' = "loop"

\* C13: flowHandleEvent(e) with e outside the mask in force returns false and
\* leaves the pending-event slot and all the state of the controller and of
\* the session as they were; with e inside the mask it returns true and the
\* slot holds e.
C13_HandleEventMask ==
    [][ HandleReturns =>
          IF (key \cap gEventMask) = EVENT_NONE
          THEN /\ handled' = FALSE
               /\ UNCHANGED <<globalVars, threadVars, sessVars, pipeVars, ctlVars>>
          ELSE /\ handled' = TRUE
               /\ gEvent' = key
               /\ UNCHANGED <<gInited, gState, gEventMask, gStop, threadVars>>
      ]_vars

\* C13 witness: while capturing, an event outside the mask has just been
\* refused with an accepted BACK_BUTTON still pending in the slot.
C13_Witness ==
    /\ mainPc = "loop" /\ handled = FALSE
    /\ gEvent = EVENT_BACK_BUTTON /\ gEventMask = EVENT_TOUCH \cup EVENT_BACK_BUTTON
    /\ flowPc = "captureWait" /\ gState = "CAPTURING"

\* C14 (as claimed): every event a wait returns belongs to the mask in force
\* for that wait.
C14_NoStaleEvent ==
    [][ WaitReturns => (gEvent \cap gEventMask) = gEvent ]_vars

\* An event pending when a DONE wait returns was posted after DONE was entered.
PostedInDone == acceptedState = "DONE"

\* C15 (as claimed): a DONE wait returns only for a TOUCH that was posted
\* after DONE was entered, or because stop was requested.
C15_DoneDismissedByTouch ==
    [][ (WaitReturns /\ flowPc \in {"cancelWait", "doneWait"}) =>
            (gStop \/ (gEvent = EVENT_TOUCH /\ PostedInDone)) ]_vars

\* A step of flowThread away from position pc on its own path (not its
\* cancellation).
flowLeaves(pc) == flowPc = pc /\ flowPc' \notin {pc, "exited"}

\* C16: when the capture loop ends with the count at the maximum, FlowState
\* goes from CAPTURING to CALIBRATING and from CALIBRATING to DONE with no
\* other value in between (a stop may end the run: NOT_INITED), and calib()
\* starts after CALIBRATING is set and returns before DONE is set.
C16_CalibratingThenDone ==
    [][ /\ (flowLeaves("ifCount") /\ Len(m_corners) >= m_calibImageCountMax)
              => (flowPc' = "calibMask" /\ gState = "CAPTURING")
        /\ (gState = "CAPTURING" /\ gState' # gState /\ Len(m_corners) >= m_calibImageCountMax)
              => gState' = "CALIBRATING"
        /\ (gState # "CALIBRATING" /\ gState' = "CALIBRATING")
              => (gState = "CAPTURING" /\ flowPc' = "calib")
        /\ flowLeaves("calib")
              => (gState = "CALIBRATING" /\ gState' = "CALIBRATING" /\ flowPc' = "callback")
        /\ (gState = "CALIBRATING" /\ gState' # gState)
              => \/ gState' = "DONE" /\ flowPc = "doneState"
                 \/ gState' = "NOT_INITED" /\ mainPc = "pthread_join"
      ]_vars

\* C16 witness: a run of MaxCount + 1 captures is DONE after its calibration.
C16_Witness ==
    /\ flowPc = "doneWait" /\ gState = "DONE" /\ gEventMask = EVENT_TOUCH
    /\ m_calibImageCountMax = MaxCount + 1 /\ lastOp = "uncaptureAll" /\ ~gStop

\* C17: the callback is invoked once per completed run: only after calib()
\* of a run whose loop ended with the count at the maximum, once for each
\* time CALIBRATING is entered and before DONE is set; a run that ends
\* cancelled or by a stop in the capture loop has no callback.
C17_CallbackOncePerRun ==
    [][ /\ callbacks' # callbacks =>
              \/ flowPc = "welcomeEvent" /\ callbacks' = 0 /\ gState' = "CAPTURING"
              \/ /\ flowPc = "callback" /\ callbacks = 0 /\ callbacks' = 1
                 /\ gState = "CALIBRATING" /\ Len(m_corners) = m_calibImageCountMax
        /\ (gState = "CALIBRATING" /\ gState' = "DONE") => callbacks = 1
        /\ (gState = "CAPTURING" /\ gState' \in {"DONE", "NOT_INITED"}) => callbacks = 0
        /\ (gState # "CALIBRATING" /\ gState' = "CALIBRATING") => callbacks = 0
      ]_vars

\* C17 witness: the callback of a completed run is running, for the first time
\* in this run.
C17_Witness ==
    /\ flowPc = "callbackRet" /\ callbacks = 1 /\ gState = "CALIBRATING"
    /\ Len(m_corners) = m_calibImageCountMax

\* C18: the callback runs with the count at the maximum, and when FlowState
\* becomes DONE after a completed run the collection is empty.
C18_AutoReset ==
    [][ /\ (flowLeaves("callback") \/ flowLeaves("callbackRet"))
              => (Len(m_corners) = m_calibImageCountMax /\ m_corners' = m_corners)
        /\ (gState = "CALIBRATING" /\ gState' = "DONE") => Len(m_corners) = 0
      ]_vars

\* C18 witness: DONE after a completed run, the collection emptied by the
\* controller's uncaptureAll().
C18_Witness ==
    /\ gState = "DONE" /\ callbacks = 1 /\ flowPc \in {"doneWait", "doneEvent"}
    /\ Len(m_corners) = 0 /\ lastOp = "uncaptureAll" /\ lastRet = TRUE

\* The controller has handled a BACK_BUTTON with no capture since the last
\* back-press and waits for the next event, no stop being requested.
BackCancelled ==
    /\ flowPc = "cancelWait" /\ event = EVENT_BACK_BUTTON
    /\ lastOp = "uncaptureAll" /\ ~gStop

\* C19 (as claimed): after such a BACK_BUTTON FlowState is WELCOME without any
\* further event, and the callback was not invoked.
C19_BackReturnsToWelcome == BackCancelled => (gState = "WELCOME" /\ callbacks = 0)

\* C19 (amended): after such a BACK_BUTTON the collection is empty and
\* FlowState is DONE with mask {TOUCH} without any further event, and the
\* callback was not invoked.
C19_BackCancelsToDone ==
    BackCancelled =>
        /\ gState = "DONE" /\ gEventMask = EVENT_TOUCH
        /\ Len(m_corners) = 0 /\ callbacks = 0

\* C19 witness: a BACK_BUTTON was handled with no capture made in this run.
C19_Witness ==
    /\ BackCancelled /\ lastRet = FALSE /\ gEvent = EVENT_NONE /\ accepted = 1
    /\ lastAccepted = EVENT_BACK_BUTTON

\* C20: a BACK_BUTTON handled in the capture loop with a capture done since
\* the last back-press calls uncapture(), which removes exactly one set, then
\* clears the flag and stays in the loop with FlowState CAPTURING; handled
\* with no capture done since the last back-press it calls uncaptureAll(),
\* which empties the collection, and leaves the loop.
C20_BackButton ==
    [][ /\ (flowLeaves("captureEvent") /\ event = EVENT_BACK_BUTTON /\ ~gStop) =>
              IF captureDoneSinceBackButtonLastPressed
              THEN ctlPc' = "uncapture" /\ flowPc' = "uncaptureRet"
              ELSE ctlPc' = "uncaptureAll" /\ flowPc' = "uncaptureAllRet"
        /\ (flowPc = "uncaptureRet" /\ ctlLeaves("uncapture"))
              => (Len(m_corners) >= 1 /\ Len(m_corners') = Len(m_corners) - 1)
        /\ flowLeaves("uncaptureRet")
              => (/\ captureDoneSinceBackButtonLastPressed' = FALSE
                  /\ flowPc' = "doWhile" /\ gState' = "CAPTURING"
                  /\ Len(m_corners) < m_calibImageCountMax)
        /\ (flowPc = "uncaptureAllRet" /\ ctlLeaves("uncaptureAll")) => Len(m_corners') = 0
        /\ flowLeaves("uncaptureAllRet") => (flowPc' = "ifCount" /\ Len(m_corners) = 0)
        /\ (flowLeaves("ifCount") /\ Len(m_corners) = 0) => flowPc' = "cancelMask"
      ]_vars

\* C20 witness: after two captures a first BACK_BUTTON left one set and a
\* second one has cleared it and left the loop.
C20_Witness ==
    /\ flowPc = "cancelMask" /\ event = EVENT_BACK_BUTTON
    /\ lastOp = "uncaptureAll" /\ lastRet = TRUE /\ Len(m_corners) = 0
    /\ ~captureDoneSinceBackButtonLastPressed /\ ~gStop

\* The controller has finished a calibration run (every run ends with the
\* session's uncaptureAll()), its DONE state was dismissed, and it waits at the
\* top of its loop for the TOUCH or MODAL that comes next.
AfterDoneDismissed ==
    /\ flowPc = "welcomeWait" /\ lastOp = "uncaptureAll" /\ ~gStop

\* C21 (as claimed): after DONE is dismissed, of a cancelled run or of a
\* completed one, flowStateGet() yields WELCOME while the controller awaits a
\* TOUCH or MODAL.
C21_DoneReturnsToWelcome == AfterDoneDismissed => flowStateGet = "WELCOME"

\* C21 (amended): after DONE is dismissed the controller awaits a TOUCH or
\* MODAL with mask {TOUCH, MODAL} or, after a MODAL, {MODAL}, and
\* flowStateGet() still yields DONE.
C21_DoneStaysDone ==
    AfterDoneDismissed =>
        /\ flowStateGet = "DONE"
        /\ gEventMask \in {EVENT_TOUCH \cup EVENT_MODAL, EVENT_MODAL}

\* C21 witness: the DONE state of a completed run was dismissed and the
\* controller waits for the next TOUCH or MODAL.
C21_Witness ==
    /\ AfterDoneDismissed /\ callbacks = 1 /\ gState = "DONE"
    /\ gEventMask = EVENT_TOUCH \cup EVENT_MODAL /\ gEvent = EVENT_NONE

\* C25: a MODAL consumed by the welcome wait makes the controller set the mask
\* {MODAL}, wait once more and then go back to the top of its loop; none of
\* these steps changes FlowState, calls an operation of the session or invokes
\* the callback.
C25_ModalNestedWait ==
    [][ /\ (flowLeaves("welcomeEvent") /\ event = EVENT_MODAL /\ ~gStop) =>
              (flowPc' = "modalMask" /\ UNCHANGED <<gState, sessVars, ctlVars, callbacks>>)
        /\ flowLeaves("modalMask") =>
              /\ flowPc' = "modalWait" /\ gEventMask' = EVENT_MODAL
              /\ UNCHANGED <<gState, sessVars, ctlVars, callbacks>>
        /\ flowLeaves("modalWait") =>
              (flowPc' = "while" /\ UNCHANGED <<gState, sessVars, ctlVars, callbacks>>)
      ]_vars

\* C25 witness: a MODAL was consumed in the first welcome wait, the nested wait
\* has returned and the controller is back at the top of its loop.
C25_Witness ==
    /\ flowPc = "while" /\ gEventMask = EVENT_MODAL /\ gState = "WELCOME"
    /\ lastOp = "none" /\ callbacks = 0 /\ ~gStop

\* Positions of flowThread from the end of a full capture loop to the return
\* of the result callback.
CalibPositions == {"calibMask", "calibState", "calib", "callback", "callbackRet"}

\* C26: the controller takes the calibrating branch, and so calls calib(),
\* only with calibImageCount() equal to calibImageCountMax(); from there until
\* the callback has returned no step changes the collection; a full collection
\* is changed only by the clearing that follows the callback's return.
C26_CalibOnFullCollection ==
    [][ /\ flowPc' \in CalibPositions => Len(m_corners') = m_calibImageCountMax
        /\ flowPc \in CalibPositions => m_corners' = m_corners
        /\ (Len(m_corners) = m_calibImageCountMax /\ m_corners' # m_corners) =>
              /\ flowPc = "resetRet" /\ ctlLeaves("uncaptureAll")
              /\ callbacks = 1 /\ Len(m_corners') = 0
      ]_vars

\* C26 witness: calib() has run on a full collection, the callback has
\* returned and the collection, still full, is about to be cleared.
C26_Witness ==
    /\ flowPc = "resetRet" /\ ctlPc = "uncaptureAll" /\ callbacks = 1
    /\ Len(m_corners) = m_calibImageCountMax /\ gState = "CALIBRATING"

\* C29 (as claimed): a session whose pattern type the worker does not handle
\* never starts a corner-finder job (no start signal, worker never busy), and
\* the worker never terminates the process while running a job.
C29_UnsupportedNeverStarted ==
    /\ m_patternType # "CHESSBOARD" => (startF = 0 /\ busyF = 0)
    /\ ~exited

\* C30 (as claimed): the found-flag and the feature positions of the published
\* result change only when frame() publishes (its copy under the result
\* lock), so that two reads with no publication in between see the same
\* values; no step of capture() changes them.
C30_PublishedImmutable ==
    [][ (\/ m_cornerFinderResultData'.cornerFoundAllFlag
                # m_cornerFinderResultData.cornerFoundAllFlag
         \/ m_cornerFinderResultData'.corners # m_cornerFinderResultData.corners)
        => (framePc = "copy" /\ framePc' # "copy")
      ]_vars

\* flowStopAndFinal has requested the stop (in either build) and waits in
\* pthread_join while flowThread is inside a flowWaitForEvent() with no event
\* pending.
StopRequestedInWait ==
    /\ mainPc \in {"pthread_join", "pthread_join_android"}
    /\ flowPc \in WaitPositions /\ gEvent = EVENT_NONE

\* C23: once the stop is requested while the controller is blocked in a wait,
\* whatever the mask, the controller thread ends and flowStopAndFinal's join
\* returns, with no event posted in between (the main thread is inside
\* flowStopAndFinal all along).
C23_StopEndsWait == StopRequestedInWait ~> (flowPc = "exited" /\ mainPc = "stopped")

\* C23 witness: the stop was requested during the wait of the capture loop;
\* that wait returned with no event, the thread left its loops (setting the
\* mask {TOUCH} on its way) and ended, and the join returned.
C23_Witness ==
    /\ mainPc = "stopped" /\ flowPc = "exited" /\ ~gInited /\ gStop
    /\ gEventMask = EVENT_TOUCH /\ event = EVENT_NONE /\ gEvent = EVENT_NONE

\* C22 (as claimed): in every reachable state in which flowStateGet() reports
\* CALIBRATING the mask is {NONE}, and a flowHandleEvent() call made while it
\* reports CALIBRATING has returned false.
C22_CalibratingMaskNone ==
    /\ flowStateGet = "CALIBRATING" => gEventMask = EVENT_NONE
    /\ (lastCall.fn = "flowHandleEvent" /\ lastCall.state = "CALIBRATING") => ~lastCall.ret

\* C22 (amended): while flowStateGet() reports CALIBRATING the mask is {NONE}
\* up to the end of the session's reset, and from flowSetEventMask(EVENT_TOUCH)
\* to flowStateSet(FLOW_STATE_DONE) it is {TOUCH}; a flowHandleEvent() call
\* made in CALIBRATING before that last window returns false and stores
\* nothing.
C22_CalibratingMaskNoneUntilReset ==
    [][ /\ (gInited' /\ gState' = "CALIBRATING") =>
              gEventMask' = IF flowPc' = "doneState" THEN EVENT_TOUCH ELSE EVENT_NONE
        /\ (HandleReturns /\ flowStateGet = "CALIBRATING" /\ flowPc # "doneState") =>
              (handled' = FALSE /\ gEvent' = gEvent)
      ]_vars

\* C22 witness: a flowHandleEvent() call made while the solver or the callback
\* ran in CALIBRATING was refused.
C22_Witness ==
    /\ lastCall = [fn |-> "flowHandleEvent", state |-> "CALIBRATING", ret |-> FALSE]
    /\ flowPc \in {"calib", "callback", "callbackRet"} /\ gState = "CALIBRATING"
    /\ gEventMask = EVENT_NONE /\ mainPc = "loop" /\ handled = FALSE

\* The main thread is outside the life of the controller: flowInitAndStart
\* was not called yet, or flowStopAndFinal has returned.
Outside == mainPc \in {"startVideo", "stopped"}

\* A step in which the main thread, outside the life of the controller, makes
\* a logged call of the flow function fn.
OutsideCall(fn) == Outside /\ lastCall' # lastCall /\ lastCall'.fn = fn

\* C24: before flowInitAndStart and after flowStopAndFinal has returned
\* flowStateGet() reports NOT_INITED; a flowHandleEvent() call made then
\* returns false and stores no event, and a flowStopAndFinal() call made then
\* returns false and changes nothing.
C24_NotInitedOutside ==
    [][ /\ Outside => flowStateGet = "NOT_INITED"
        /\ Outside' => flowStateGet' = "NOT_INITED"
        /\ OutsideCall("flowHandleEvent") =>
              /\ lastCall'.ret = FALSE /\ handled' = FALSE
              /\ UNCHANGED <<globalVars, mainPc, threadVars>>
        /\ OutsideCall("flowStopAndFinal") =>
              /\ lastCall'.ret = FALSE
              /\ UNCHANGED <<sessVars, pipeVars, ctlVars, globalVars, mainVars, threadVars,
                             accepted, lastAccepted, acceptedState, callbacks>>
      ]_vars

\* C24 witness: after an event was accepted in CAPTURING the controller was
\* stopped, and a flowHandleEvent() call made after flowStopAndFinal returned
\* was refused although the mask left behind is not empty.
C24_Witness ==
    /\ mainPc = "stopped" /\ ~gInited /\ gState = "NOT_INITED"
    /\ lastCall = [fn |-> "flowHandleEvent", state |-> "NOT_INITED", ret |-> FALSE]
    /\ acceptedState = "CAPTURING" /\ gEventMask # EVENT_NONE /\ handled = FALSE

\* The main thread has asked the controller to stop.
StopRequested == mainPc \in {"pthread_join", "pthread_join_android", "stopped"}

\* C27: whenever FlowState is CALIBRATING, FlowState DONE with mask {TOUCH}
\* follows without any event being posted (no step of the main thread is
\* forced), unless the controller is asked to stop first.
C27_CalibratingEnds ==
    (gInited /\ gState = "CALIBRATING")
        ~> ((gState = "DONE" /\ gEventMask = EVENT_TOUCH) \/ StopRequested)

\* C27 witness: DONE with mask {TOUCH} after a completed run, the main
\* thread's last call of flowHandleEvent being the TOUCH of the last capture.
C27_Witness ==
    /\ flowPc = "doneWait" /\ gState = "DONE" /\ gEventMask = EVENT_TOUCH
    /\ callbacks = 1 /\ gEvent = EVENT_NONE /\ ~gStop /\ mainPc = "loop"
    /\ lastCall = [fn |-> "flowHandleEvent", state |-> "CAPTURING", ret |-> TRUE]
    /\ lastAccepted = EVENT_TOUCH

\* C28: an event pending while the controller is in a wait is eventually
\* consumed: the controller leaves the wait and the slot is empty, unless the
\* controller is asked to stop first.
C28_EventDelivered ==
    (flowPc \in WaitPositions /\ gEvent # EVENT_NONE)
        ~> ((flowPc \notin WaitPositions /\ gEvent = EVENT_NONE) \/ StopRequested)

\* C28 witness: the controller was blocked in the wait of the capture loop
\* (no session operation made yet, the TOUCH that started the run consumed)
\* when a single BACK_BUTTON was posted; it woke up with that event and the
\* slot is empty.
C28_Witness ==
    /\ flowPc = "captureEvent" /\ event = EVENT_BACK_BUTTON /\ gEvent = EVENT_NONE
    /\ accepted = 1 /\ lastAccepted = EVENT_BACK_BUTTON /\ acceptedState = "CAPTURING"
    /\ lastOp = "none" /\ ~gStop

\* C31 (as claimed): frame() copies a source frame into the frame buffer, to
\* submit it, only when that frame is newer than the one of the job submitted
\* before (the frame the buffer holds when frame() checks a frame out).
C31_SubmitsOnlyNewer ==
    [][ (framePc = "checkoutFrame" /\ framePc' = "memcpy")
            => ImgId(buff') > ImgId(m_cornerFinderData.videoFrame)
      ]_vars

\* A step of frame() other than the copy of a checked-out frame and the start
\* signal that follows it.
FrameStepWithoutFrame ==
    /\ framePc' # framePc
    /\ framePc \notin {"memcpy", "threadStartSignal"}
    /\ ~(framePc = "checkoutFrame" /\ buff' # NullImg)

\* C32: a frame() call to which the source hands out no frame writes nothing
\* to the frame buffer and submits no job at any of its steps; its steps
\* other than the publication of a completed result change nothing but the
\* call's own position, and at the checkout it returns (true) without
\* entering the copy and checkinFrame().
C32_NoFrameNoOp ==
    [][ FrameStepWithoutFrame =>
          /\ m_cornerFinderData' = m_cornerFinderData
          /\ startF' = startF /\ busyF' = busyF /\ vsFrame' = vsFrame
          /\ framePc \in {"idle", "threadGetBusyStatus", "checkoutFrame"} =>
                UNCHANGED <<sessVars, dataVars, handleVars, vsFrame, buff>>
          /\ framePc = "checkoutFrame" => (framePc' = "idle" /\ buff' = NullImg)
      ]_vars

\* C32 witness: a result is published and nothing is submitted, running or
\* completed: the frame() call that published it found the worker idle and
\* got no frame from the source.
C32_Witness ==
    /\ framePc = "idle" /\ startF = 0 /\ busyF = 0 /\ endF = 0
    /\ m_cornerFinderResultData.videoFrame \notin {NullImg, GarbageImg}
    /\ m_cornerFinderData.videoFrame = m_cornerFinderResultData.videoFrame

\* Positions of flowThread at the top of its loop, up to the start of a run.
WelcomePositions ==
    {"while", "welcomeMask", "welcomeWait", "welcomeEvent", "modalMask", "modalWait"}

\* C33 (as claimed): once flowInitAndStart has returned and the controller
\* thread has made its first statement, flowStateGet() reports WELCOME until
\* the first run starts (no run has ended in DONE yet), and FlowState never
\* passes from NOT_INITED directly to CAPTURING.
C33_FirstStateWelcome ==
    [][ /\ (gInited' /\ flowPc' \in WelcomePositions /\ gState' # "DONE")
              => flowStateGet' = "WELCOME"
        /\ ~(gState = "NOT_INITED" /\ gState' = "CAPTURING")
      ]_vars

\* flowThread is inside the capture loop and is not in the middle of the
\* uncapture() that a BACK_BUTTON with the flag set has just made.
InCaptureLoop ==
    \/ flowPc \in {"captureWait", "captureEvent", "captureRet", "doWhile"}
    \/ flowPc = "uncaptureRet" /\ ctlPc = "uncapture"

\* C34: whenever captureDoneSinceBackButtonLastPressed is true inside the
\* capture loop the collection holds at least one set, and every uncapture()
\* the controller has made returned true.
C34_UncaptureNeverEmpty ==
    /\ (InCaptureLoop /\ captureDoneSinceBackButtonLastPressed) => Len(m_corners) >= 1
    /\ lastOp = "uncapture" => lastRet = TRUE

\* C34 witness: a BACK_BUTTON with the flag set has removed the only set.
C34_Witness ==
    /\ flowPc = "doWhile" /\ event = EVENT_BACK_BUTTON
    /\ lastOp = "uncapture" /\ lastRet = TRUE /\ Len(m_corners) = 0
    /\ ~captureDoneSinceBackButtonLastPressed


\* ---------------------------------------------------------------- restart

\* Mutant: the restarted controller is handed the previous session, with
\* the sets it still holds.
newCalibrationKeepsCorners ==
    /\ mainPc = "stopped"
    /\ mainPc' = "startVideo"
    /\ flowPc' = "none" /\ event' = EVENT_NONE
    /\ captureDoneSinceBackButtonLastPressed' = FALSE
    /\ key' = EVENT_NONE /\ handled' = FALSE
    /\ accepted' = 0 /\ lastAccepted' = EVENT_NONE /\ acceptedState' = "NOT_INITED"
    /\ callbacks' = 0 /\ lastCall' = NoCall
    /\ publishedInEarlierRun' = FALSE
    /\ UNCHANGED <<sessVars, pipeVars, ctlVars, globalVars>>

\* stopVideo() after flowStopAndFinal() has returned, startVideo() and the
\* main loop's post-video setup up to its flowInitAndStart call: the session
\* is deleted and a new Calibration is constructed on a new video source (the
\* pattern type and the image count are kept the same here).  Nothing here touches the statics of flow.cpp: gEvent,
\* gEventMask and gStop keep the values the stopped controller left.  The
\* previous flowThread's locals are gone, and the logs of the main thread's
\* calls and of the accepted posts start again with the new controller.
newCalibration ==
    /\ mainPc = "stopped"
    /\ m_cornerFinderData' = CalibrationCornerFinderData(TRUE)
    /\ m_cornerFinderResultData' = CalibrationCornerFinderData(FALSE)
    /\ m_cornerFinderResultLock' = "free"
    /\ m_corners' = <<>>
    /\ startF' = 0 /\ endF' = 0 /\ busyF' = 0
    /\ vsFrame' = NullImg
    /\ framePc' = "idle" /\ buff' = NullImg
    /\ workerPc' = "threadStartWait" /\ found' = 0
    /\ readerPc' = "idle" /\ fetched' = NoFetch
    /\ ctlPc' = "idle" /\ saved' = FALSE
    /\ lastOp' = "none" /\ lastRet' = FALSE /\ repeated' = FALSE
    /\ mainPc' = "startVideo"
    /\ flowPc' = "none" /\ event' = EVENT_NONE
    /\ captureDoneSinceBackButtonLastPressed' = FALSE
    /\ key' = EVENT_NONE /\ handled' = FALSE
    /\ accepted' = 0 /\ lastAccepted' = EVENT_NONE /\ acceptedState' = "NOT_INITED"
    /\ callbacks' = 0 /\ lastCall' = NoCall
    /\ publishedInEarlierRun' = FALSE
    /\ UNCHANGED <<m_patternType, m_calibImageCountMax, exited, globalVars>>

\* The controller stopped and started again, any number of times: SpecLife's
\* steps and the restart.
NextRestart ==
    \/ NextLife
    \/ newCalibration

SpecRestart == InitLife /\ [][NextRestart]_vars


C36_DoneImpliesEmpty == flowStateGet = "DONE" => Len(m_corners) = 0


\* capture() pushes a set in this step.
CaptureSucceeds == ctlPc = "captureResult" /\ saved'

\* C37: each published result contributes at most one captured set, and only
\* to the run during which it was published: when capture() pushes a set the
\* published corners have not been pushed since frame() published them (two
\* successful captures have a publication between them), and frame() has
\* published since CAPTURING was last set.
C37_OneSetPerPublication ==
    [][ CaptureSucceeds =>
            /\ m_cornerFinderResultData.corners.ref = 0
            /\ ~publishedInEarlierRun ]_vars


\* The controller thread exists, no post was accepted since it was started,
\* and it is at a position it passes before it first sets a mask.
BeforeOwnMask == flowPc \in {"flowThread", "while", "welcomeMask"} /\ accepted = 0

\* C38: a restarted controller starts clean: while the thread started by
\* flowInitAndStart() has not yet set its own mask the pending-event slot is
\* empty and flowHandleEvent accepts no event, and an event a wait returns
\* was accepted by this controller, never one posted to the previous
\* instance.
C38_RestartStartsClean ==
    [][ /\ BeforeOwnMask' => gEvent' = EVENT_NONE
        /\ (BeforeOwnMask /\ HandleReturns) => ~handled'
        /\ (flowPc \in WaitPositions /\ flowPc' # flowPc /\ gEvent # EVENT_NONE)
               => accepted >= 1 ]_vars


\* ---------------------------------------------------------------- drawView

\* drawView(): FLOW_STATE state = flowStateGet(); ... else if (state ==
\* FLOW_STATE_CAPTURING): the branch that fetches the published result.  The
\* main loop calls drawView() after frame() has returned.
drawViewCapturing == mainPc = "loop" /\ framePc = "idle" /\ flowStateGet = "CAPTURING"

\* Mutant: the main thread goes on with its loop while drawView() holds the
\* result lock.
drawViewReturnedAnytime == TRUE

\* The main thread is not inside drawView() between the fetch and the unlock:
\* only then does it poll events, call frame() or stop the video.
drawViewReturned == readerPc = "idle"

\* SpecLife's session with the renderer: the main thread's loop polls the
\* events, calls frame() while CAPTURING and then drawView(), which holds the
\* result lock from cornerFinderResultsLockAndFetch to cornerFinderResultsUnlock.
NextRender ==
    \/ flowInitAndStart
    \/ flowInitAndStartInited
    \/ drawViewReturned /\ pollEvent
    \/ flowHandleEvent /\ UNCHANGED lastCall
    \/ drawViewReturned /\ flowStopAndFinal
    \/ flowStopAndFinalJoined
    \/ mainPc = "loop" /\ cornerFinderJobOn(1)
    \/ drawViewReturned /\ mainCallsFrame /\ frameGetStatus
    \/ frameEndWait
    \/ frameLock
    \/ frameCopy
    \/ frameUnlock
    \/ frameGetBusyStatus
    \/ frameCheckout
    \/ flowThreadStart
    \/ flowWhile
    \/ welcomeMask
    \/ welcomeWait
    \/ welcomeEvent
    \/ modalMask
    \/ modalWait
    \/ capturingMask
    \/ captureWait
    \/ captureEvent
    \/ captureCheck
    \/ captureLock
    \/ captureResult
    \/ captureUnlock
    \/ uncapture
    \/ uncaptureAll
    \/ captureRet
    \/ uncaptureAllRet
    \/ uncaptureRet
    \/ doWhile
    \/ ifCount
    \/ cancelMask
    \/ cancelState
    \/ cancelWait
    \/ cancelEvent
    \/ calibMask
    \/ calibState
    \/ calib
    \/ callback
    \/ callbackRet
    \/ resetRet
    \/ doneState
    \/ doneWait
    \/ doneEvent
    \/ flowThreadExit
    \/ flowThreadCancelled
    \/ drawViewCapturing /\ cornerFinderResultsLockAndFetch
    \/ cornerFinderResultsUnlock

SpecRender == InitLife /\ [][NextRender]_vars


\* The holder of the result lock releases it: frame()'s copy and unlock,
\* capture()'s refinement and unlock, and drawView()'s unlock after its fetch.
resultLockReleased ==
    \/ frameCopy \/ frameUnlock
    \/ captureResult \/ captureUnlock
    \/ cornerFinderResultsUnlock

\* SpecRender with the scheduling the code relies on: a thread inside a
\* critical section of the result lock runs on to its unlock, frame() blocked
\* in pthread_mutex_lock gets the mutex once it stays free, and capture()
\* blocked in pthread_mutex_lock gets it at one of the releases (the main loop
\* lets go of the mutex in every turn and sleeps before it takes it again).
SpecRenderFair ==
    /\ SpecRender
    /\ WF_vars(resultLockReleased)
    /\ WF_vars(frameLock)
    /\ SF_vars(captureLock)

\* A step in which the main thread calls a function of flow.cpp, which takes
\* gStateLock or gEventLock: flowHandleEvent, flowStopAndFinal, flowStateGet
\* at the head of frame()'s branch or of drawView()'s.
MainTakesFlowLock ==
    \/ mainPc' # mainPc
    \/ framePc = "idle" /\ framePc' # "idle"
    \/ readerPc = "idle" /\ readerPc' # "idle"

\* A step in which flowThread executes a statement of its own: all its calls
\* of flowStateSet, flowSetEventMask and flowWaitForEvent are such steps.
FlowThreadTakesFlowLock == flowPc' # flowPc

\* No step takes one of the three locks while its thread holds another:
\* the thread that calls into flow.cpp holds no result lock, the result lock
\* is taken by a thread that does not hold it, and no flow function touches
\* both what gStateLock guards and what gEventLock guards.
LocksNotNested ==
    /\ MainTakesFlowLock => m_cornerFinderResultLock \notin {"frame", "reader"}
    /\ FlowThreadTakesFlowLock => m_cornerFinderResultLock # "capture"
    /\ (m_cornerFinderResultLock' # m_cornerFinderResultLock
            /\ m_cornerFinderResultLock' # "free") => m_cornerFinderResultLock = "free"
    /\ ~(gState' # gState /\ <<gEvent, gEventMask>>' # <<gEvent, gEventMask>>)

\* C39: no deadlock among the main thread (frame pump and renderer), the
\* controller thread and the worker: the result lock, the state lock and the
\* event lock are never held nested; frame() calls threadEndWait only when the
\* worker's completion has been observed, so the call does not block; and
\* with every fetch of the renderer followed by its unlock, frame() waiting
\* to publish and capture() waiting for the result lock acquire it.
C39_NoDeadlock ==
    /\ [][LocksNotNested]_vars
    /\ [](framePc = "threadEndWait" => endF # 0)
    /\ (framePc = "lock") ~> (framePc = "copy")
    /\ (ctlPc = "captureLock") ~> (ctlPc = "captureResult")

\* capture() is waiting for the result lock while the renderer holds it
\* between its fetch and its unlock.
C39_Witness ==
    /\ ctlPc = "captureLock" /\ flowPc = "captureRet"
    /\ m_cornerFinderResultLock = "reader" /\ readerPc = "locked"
====
